---- MODULE Spec2Model ----
(***************************************************************************)
(* Model of ua_project_transfer: the run driver (main), form harvesting,   *)
(* reconciliation (samples_differ / check_samples), the transactional      *)
(* poster (post_project / create_clarity_objs / delete_items), the router  *)
(* (route_samples) and the LIMS wrappers of project_lims_tools.            *)
(*                                                                         *)
(* The LIMS (Clarity) and the ticketing system (iLab) are external: the    *)
(* LIMS is modelled by the entities it holds, every remote call may fail,  *)
(* and what a request carries is drawn when the driver reads it.           *)
(*                                                                         *)
(* Names that the code concatenates or searches (request ids, project,     *)
(* container and form names) are sequences of characters; other names are  *)
(* atoms.                                                                  *)
(*                                                                         *)
(* Spec is the whole driver. SpecReconcile, SpecPoster and SpecRoute start *)
(* at samples_differ, at post_project and at route_strategy, with the LIMS *)
(* and the site configuration these may find; SpecBranch has both branches *)
(* of main, SpecBatch the two batch posts, SpecRetry and SpecRerun a run   *)
(* of main after earlier runs.                                             *)
(***************************************************************************)
EXTENDS Integers, Sequences, FiniteSets, TLC

\* ------------------------------------------------------------------ bounds
\* requests begun over all invocations of main
MaxRequests == 2
\* samples of one incoming form
MaxSamples == 1
\* custom forms attached to one request
MaxForms == 2
\* failures of remote calls (and interrupts) over all invocations of main
MaxFaults == 2
\* samples of the incoming form handed to samples_differ on its own
MaxIncoming == 3
\* samples the project already holds when samples_differ is studied on its own
MaxExisting == 2
\* samples of the form when the two batch posts are studied on their own
MaxBatch == 3

\* ----------------------------------------------------------------- domains
ReqIds == {<<"1">>, <<"2", "1">>}
ResNames == {"Ann"}
SmpNames == <<"A", "B", "C", "D">>
Locs == {"1", "2", "3"}
ConNames == {<<"Plate1">>, <<"Plate2">>}
KnownConTypes == {"plate", "tube"}
ConTypes == {"plate", "bag"}
Alphabet == <<"-", "1", "2", "p">>
\* custom fields a form may carry, and those the LIMS defines for a Sample
UdfNames == {"Conc", "Fake"}
ValidUdfs == {"Conc"}

\* --------------------------------------------------------- string helpers
Range(s) == {s[i] : i \in 1..Len(s)}

Ord(c) == CHOOSE i \in 1..Len(Alphabet) : Alphabet[i] = c

\* Python's str "<" : lexicographic on the characters.
RECURSIVE StrLess(_, _)
StrLess(a, b) ==
    IF Len(b) = 0 THEN FALSE
    ELSE IF Len(a) = 0 THEN TRUE
    ELSE IF Ord(Head(a)) # Ord(Head(b)) THEN Ord(Head(a)) < Ord(Head(b))
    ELSE StrLess(Tail(a), Tail(b))

\* Python's "a in b" on two strings: a is a contiguous part of b.
StrIn(a, b) ==
    \E i \in 0..(Len(b) - Len(a)) :
        \A j \in 1..Len(a) : b[i + j] = a[j]

\* sorted(list(all_req_ids.keys()))
RECURSIVE Sorted(_)
Sorted(S) ==
    IF S = {} THEN <<>>
    ELSE LET m == CHOOSE x \in S : \A y \in S \ {x} : StrLess(x, y)
         IN  <<m>> \o Sorted(S \ {m})

\* delete_list[::-1]
RECURSIVE Reverse(_)
Reverse(s) == IF s = <<>> THEN <<>> ELSE Reverse(Tail(s)) \o <<Head(s)>>

\* All orders in which the LIMS may return the links of a batch.
Perms(S) ==
    {s \in UNION {[1..Cardinality(S) -> S]} : \A x \in S : \E i \in DOMAIN s : s[i] = x}

\* Identifiers in the order of their numbers.
RECURSIVE UriSeq(_)
UriSeq(uris) ==
    IF uris = {} THEN <<>>
    ELSE LET u == CHOOSE x \in uris : \A y \in uris : x.id <= y.id
         IN  <<u>> \o UriSeq(uris \ {u})

\* ------------------------------------------------------------------ state
VARIABLES
    begun,            \* requests begun so far, over all runs
    faults,           \* remote calls that failed so far, over all runs
    pc,               \* position of the driver
    to_process,       \* main: sorted request ids of this run
    idx,              \* main: number of requests of to_process begun
    clarity_prj_ids,  \* main: project name -> limsid pairs, read once per run
    name,             \* main: the project key found to hold req_id, or NoName
    prj_data,         \* ProjectData of the request in progress
    new_proj,         \* post_project's new_proj argument
    delete_list,      \* post_project's delete_list
    sample_uris,      \* what create_clarity_objs returned
    del_pos,          \* delete_items: position in delete_list[::-1]
    researchers,      \* LIMS: researchers
    projects,         \* LIMS: projects
    containers,       \* LIMS: containers
    samples,          \* LIMS: samples (each with its artifact)
    lims_calls,       \* history of the poster's calls for the request in progress
    log,              \* what the last step wrote to the log
    recon,            \* history: what samples_differ was given
    wf_locations,     \* core_specifics: exact form name -> routing function
    unroutable_forms, \* core_specifics: form names whose routing is skipped
    route,            \* history: what route_strategy was given, invoked and assigned
    harvest,          \* history: the forms harvest_form was given
    clock,            \* datetime.datetime.now when main starts, in minutes
    audit             \* the log file when main starts: the failures of earlier runs

lims == <<researchers, projects, containers, samples>>
driver == <<begun, to_process, idx, clarity_prj_ids, name>>
vars == <<begun, faults, pc, to_process, idx, clarity_prj_ids, name, prj_data, new_proj,
          delete_list, sample_uris, del_pos, researchers, projects, containers,
          samples, lims_calls, log, recon, wf_locations, unroutable_forms, route,
          harvest, clock, audit>>
site == <<wf_locations, unroutable_forms>>

NoName == <<>>
NoUri == [kind |-> "", id |-> 0]
Uri(kind, id) == [kind |-> kind, id |-> id]
NoData == [req_id |-> NoName, name |-> NoName, res |-> "", res_uri |-> NoUri,
           uri |-> NoUri, samples |-> <<>>]
\* ProjectRecord(uri=prj_info.name), lines 42-48 and 481, as the log shows it.
ProjectRecord(uri, date) == [uri |-> uri, date |-> date]
NoAdapter == ""
NoHarvest == [called |-> FALSE, kinds |-> <<>>]
NoFn == ""
NoRoute == [called |-> FALSE, form |-> NoName, fn |-> NoFn, raised |-> FALSE, arts |-> {},
            assigned |-> {}]
NoRecon == [called |-> FALSE, incoming |-> <<>>, existing |-> {}, con_names |-> {},
            gets |-> 0, con_request |-> <<>>]

\* ------------------------------------------------------------- form names
\* CustomForm.name, a string: its characters.
Dna == <<"D", "N", "A">>
DnaLower == <<"d", "n", "a">>
DnaPadded == <<" ", "D", "N", "A", " ">>
Rna == <<"R", "N", "A">>
JustQuote == <<"Q", "U", "O", "T", "E">>
RequestAQuote ==
    <<"R", "E", "Q", "U", "E", "S", "T", " ", "A", " ", "Q", "U", "O", "T", "E">>
QuoteMixed ==
    <<"R", "e", "q", "u", "e", "s", "t", " ", "a", " ", "Q", "u", "o", "t", "e">>
DnaQuote == <<" ">> \o Dna \o <<" ">> \o QuoteMixed \o <<" ">>
NonQueryable == <<"N", "Q">>
DataAnalysisInfo ==
    <<"D", "A", "T", "A", " ", "A", "N", "A", "L", "Y", "S", "I", "S", " ",
      "I", "N", "F", "O">>
FormNames == {Dna, DnaLower, DnaPadded, Rna, JustQuote, RequestAQuote, QuoteMixed, DnaQuote}

\* str.upper, on the letters of FormNames.
UpperChar(c) ==
    CASE c = "a" -> "A" [] c = "d" -> "D" [] c = "e" -> "E" [] c = "n" -> "N"
      [] c = "o" -> "O" [] c = "q" -> "Q" [] c = "s" -> "S" [] c = "t" -> "T"
      [] c = "u" -> "U" [] OTHER -> c
Upper(str) == [i \in DOMAIN str |-> UpperChar(str[i])]

\* str.strip: without the blanks at both ends.
Strip(str) ==
    LET inked == {i \in DOMAIN str : str[i] # " "}
    IN  IF inked = {} THEN <<>>
        ELSE SubSeq(str, CHOOSE i \in inked : \A j \in inked : i <= j,
                         CHOOSE i \in inked : \A j \in inked : j <= i)

\* harvest_form, lines 133-137: the forms it does not skip, the only ones main
\* hands to route_samples.
HarvestedNames ==
    {n \in FormNames :
        ~ \/ StrIn(NonQueryable, Strip(n))
          \/ StrIn(RequestAQuote, Upper(Strip(n)))
          \/ StrIn(DataAnalysisInfo, Upper(Strip(n)))}

\* core_specifics of a site: wf_locations maps form names to the routing
\* functions of the site, unroutable_forms lists form names. The template of
\* the repository has both empty.
RouteFnOf(form_name) ==
    CASE form_name = Dna -> "route_dna"
      [] form_name = DnaPadded -> "route_dna_padded"
      [] form_name = RequestAQuote -> "route_quote"
      [] OTHER -> "route_other"
TemplateSite == [wf |-> [n \in {} |-> NoFn], unroutable |-> {}]
SiteConfigs ==
    {[wf |-> [n \in keys |-> RouteFnOf(n)], unroutable |-> skip] :
        keys \in SUBSET {Dna, DnaPadded, RequestAQuote},
        skip \in SUBSET {Dna, DnaLower, Rna}}
\* The site main is run at: it maps a form and skips another.
MainSites == {[wf |-> [n \in {Dna} |-> RouteFnOf(n)], unroutable |-> {Rna}]}

\* The Sample namedtuple of project_transfer: what two samples are compared by.
Sample(n, l, c) == [name |-> n, location |-> l, container |-> c]

\* ProjectRecord / prj_info.name: the ticketing client names the project after
\* the request, so the request id is part of the project name.
ProjectName(req_id) == <<"p">> \o req_id

\* ------------------------------------------------------------- LIMS reads
LimsUris ==
    {r.uri : r \in researchers} \cup {p.uri : p \in projects}
    \cup {c.uri : c \in containers} \cup {s.uri : s \in samples}

\* The next identifier the LIMS hands out: one it does not hold.
next_id ==
    LET ids == {u.id : u \in LimsUris}
    IN  IF ids = {} THEN 1 ELSE 1 + (CHOOSE m \in ids : \A i \in ids : i <= m)

\* GET samples?projectlimsid=...
SamplesOfProject(prj_uri) == {s \in samples : s.prj = prj_uri}

\* The artifact the LIMS keeps for a sample.
ArtifactOf(smp_uri) == Uri("artifacts", smp_uri.id)

Init ==
    /\ begun = 0
    /\ faults = 0
    /\ pc = "idle"
    /\ to_process = <<>>
    /\ idx = 0
    /\ clarity_prj_ids = {}
    /\ name = NoName
    /\ prj_data = NoData
    /\ new_proj = FALSE
    /\ delete_list = <<>>
    /\ sample_uris = <<>>
    /\ del_pos = 0
    /\ researchers = {}
    /\ projects = {}
    /\ containers = {}
    /\ samples = {}
    /\ lims_calls = <<>>
    /\ log = {}
    /\ recon = NoRecon
    /\ \E site_config \in MainSites :
          /\ wf_locations = site_config.wf
          /\ unroutable_forms = site_config.unroutable
    /\ route = NoRoute
    /\ harvest = NoHarvest
    /\ clock = 0
    /\ audit = {}

\* ------------------------------------------------------------------ logging
LogRec(level, what, smps, cons) ==
    [level |-> level, what |-> what, samples |-> smps, containers |-> cons]

\* A remote call fails (is_fault) or answers: the failures are counted.
Fault(is_fault) ==
    /\ is_fault => faults < MaxFaults
    /\ faults' = IF is_fault THEN faults + 1 ELSE faults

\* The driver leaves main through an exception nobody catches.
Abort ==
    /\ pc' = "aborted"
    /\ UNCHANGED <<driver, prj_data, new_proj, delete_list, sample_uris, del_pos, lims,
                   lims_calls>>
    /\ log' = {}
    /\ recon' = NoRecon
    /\ route' = NoRoute
    /\ harvest' = NoHarvest
    /\ UNCHANGED <<clock, audit>>
    /\ UNCHANGED site

\* --------------------------------------------------------------- main: start
\* main, lines 444-463: the pending requests and the projects of the LIMS.
StartRun ==
    /\ pc \in {"idle", "finished", "aborted"}
    /\ begun < MaxRequests
    /\ UNCHANGED begun
    /\ name' = NoName
    /\ prj_data' = NoData
    /\ new_proj' = FALSE
    /\ delete_list' = <<>>
    /\ sample_uris' = <<>>
    /\ del_pos' = 0
    /\ lims_calls' = <<>>
    /\ log' = {}
    /\ recon' = NoRecon
    /\ route' = NoRoute
    /\ harvest' = NoHarvest
    /\ UNCHANGED <<clock, audit>>
    /\ UNCHANGED site
    /\ UNCHANGED lims
    /\ \E requests \in {"ok", "RuntimeError", "error"}, get_projects \in {"ok", "error"} :
          /\ Fault(requests = "error" \/ get_projects = "error")
          /\ IF requests = "error" \/ get_projects = "error"
               THEN /\ pc' = "aborted"
                    /\ to_process' = <<>>
                    /\ idx' = 0
                    /\ clarity_prj_ids' = {}
               ELSE /\ \E all_req_ids \in (IF requests = "ok" THEN SUBSET ReqIds ELSE {{}}) :
                           to_process' = Sorted(all_req_ids)
                    /\ idx' = 0
                    /\ clarity_prj_ids' = {[name |-> p.name, limsid |-> p.uri] : p \in projects}
                    /\ pc' = "loop"

\* main, line 465: the body of the loop is over for this request; its
\* ProjectData, form and delete list are dropped.
NextIteration ==
    /\ pc = "next"
    /\ pc' = "loop"
    /\ name' = NoName
    /\ prj_data' = NoData
    /\ new_proj' = FALSE
    /\ delete_list' = <<>>
    /\ sample_uris' = <<>>
    /\ del_pos' = 0
    /\ lims_calls' = <<>>
    /\ log' = {}
    /\ recon' = NoRecon
    /\ route' = NoRoute
    /\ harvest' = NoHarvest
    /\ UNCHANGED <<clock, audit>>
    /\ UNCHANGED site
    /\ UNCHANGED <<begun, faults, to_process, idx, clarity_prj_ids, lims>>

\* main, line 520: the loop is over.
FinishRun ==
    /\ pc = "loop"
    /\ idx = Len(to_process)
    /\ pc' = "finished"
    /\ UNCHANGED <<faults, driver, prj_data, new_proj, delete_list, sample_uris, del_pos,
                   lims, lims_calls>>
    /\ log' = {}
    /\ recon' = NoRecon
    /\ route' = NoRoute
    /\ harvest' = NoHarvest
    /\ UNCHANGED <<clock, audit>>
    /\ UNCHANGED site

\* The keys of clarity_prj_ids that hold req_id (lines 467-469).
KeysHolding(req_id) == {e.name : e \in {x \in clarity_prj_ids : StrIn(req_id, x.name)}}

\* clarity_prj_ids[name]
PrjLimsid(key) == (CHOOSE e \in clarity_prj_ids : e.name = key).limsid

\* main, lines 465-482: the next request id, the project key that holds it (the
\* last one in the order the LIMS listed the projects) and its project info.
BeginRequest ==
    /\ pc = "loop"
    /\ idx < Len(to_process)
    /\ begun < MaxRequests
    /\ begun' = begun + 1
    /\ idx' = idx + 1
    /\ LET req_id == to_process[idx + 1] IN
          /\ \E key \in (IF KeysHolding(req_id) = {} THEN {NoName} ELSE KeysHolding(req_id)) :
                name' = key
          /\ \E res \in ResNames :
                prj_data' = [NoData EXCEPT !.req_id = req_id,
                                           !.name = ProjectName(req_id),
                                           !.res = res]
    /\ pc' = "harvest"
    /\ new_proj' = FALSE
    /\ delete_list' = <<>>
    /\ sample_uris' = <<>>
    /\ del_pos' = 0
    /\ lims_calls' = <<>>
    /\ log' = {}
    /\ recon' = NoRecon
    /\ route' = NoRoute
    /\ harvest' = NoHarvest
    /\ UNCHANGED <<clock, audit>>
    /\ UNCHANGED site
    /\ UNCHANGED <<faults, to_process, clarity_prj_ids, lims>>

\* ------------------------------------------------------------- harvest_form
FormKinds == {"business", "skip", "TypeError", "ValueError"}
NoForm == [kind |-> "none", samples |-> <<>>]

\* What the ticketing system may attach to a request: up to MaxForms forms.
KindSeqs == UNION {[1..n -> FormKinds] : n \in 0..MaxForms}

\* The incoming samples of a business form: names unique within the form.
IncomingSample(i, l, c, t) ==
    [name |-> SmpNames[i], location |-> l,
     con |-> [name |-> c, con_type |-> t, uri |-> NoUri], uri |-> NoUri,
     udfs |-> {}, adapter |-> NoAdapter, art_uri |-> NoUri]

\* The i-th sample sits in the i-th well of its container.
Well(i) == <<"1", "2", "3", "4">>[i]

\* The container type is a field of the form: its samples share it.  The
\* containers of a form are numbered from Plate1 in the order the form
\* first mentions them.
FormSamples ==
    UNION {
        {[i \in 1..n |-> IncomingSample(i, Well(i), c[i], t)] :
            c \in {f \in [1..n -> ConNames] : n > 0 => f[1] = <<"Plate1">>},
            t \in ConTypes}
        : n \in 0..MaxSamples}

\* harvest_form, lines 105-147: the loop over the forms of the request.
\* TypeError: log, break.  ValueError: log, continue.  A quote, non-queryable
\* or data-analysis-info form: current_form = None, continue.
RECURSIVE HarvestLoop(_, _, _)
HarvestLoop(forms, current_form, lg) ==
    IF forms = <<>> THEN [form |-> current_form, log |-> lg]
    ELSE LET f == Head(forms) IN
         CASE f.kind = "TypeError" ->
                [form |-> current_form,
                 log |-> lg \cup {LogRec("error", "filled out incorrectly", <<>>, {})}]
           [] f.kind = "ValueError" ->
                HarvestLoop(Tail(forms), current_form,
                            lg \cup {LogRec("error", "form error", <<>>, {})})
           [] f.kind = "skip" ->
                HarvestLoop(Tail(forms), NoForm, lg)
           [] OTHER ->
                HarvestLoop(Tail(forms), f,
                            IF f.samples = <<>>
                            THEN lg \cup {LogRec("error", "no samples", <<>>, {})}
                            ELSE lg)

\* main, lines 484-490, with harvest_form, lines 89-147.
\* get_custom_forms: IlabConfigError or a 404 give None; any other HTTPError
\* is caught without a return, and line 105 then reads the unbound
\* forms_uri_to_soup, which no one catches.
HarvestForm ==
    /\ pc = "harvest"
    /\ \E got \in {"ok", "IlabConfigError", "HTTPError404", "HTTPError"} :
          /\ Fault(got = "HTTPError")
          /\ CASE got = "HTTPError" ->
                    Abort
               [] got \in {"IlabConfigError", "HTTPError404"} ->
                    /\ pc' = "next"
                    /\ UNCHANGED <<driver, prj_data, new_proj, delete_list, sample_uris,
                                   del_pos, lims, lims_calls>>
                    /\ log' = {}
                    /\ recon' = NoRecon
                    /\ route' = NoRoute
                    /\ harvest' = NoHarvest
                    /\ UNCHANGED <<clock, audit>>
                    /\ UNCHANGED site
               [] OTHER ->
                    \E kinds \in KindSeqs :
                    \E smps \in (IF \E i \in DOMAIN kinds : kinds[i] = "business"
                                 THEN FormSamples ELSE {<<>>}) :
                       LET forms == [i \in DOMAIN kinds |->
                                       [kind |-> kinds[i],
                                        samples |-> IF kinds[i] = "business" THEN smps ELSE <<>>]]
                           r == HarvestLoop(forms, NoForm, {})
                       IN  /\ log' = r.log
                           /\ IF r.form = NoForm
                              THEN /\ pc' = "next"
                                   /\ UNCHANGED prj_data
                              ELSE /\ pc' = "branch"
                                   /\ prj_data' = [prj_data EXCEPT !.samples = r.form.samples]
                           /\ UNCHANGED <<driver, new_proj, delete_list, sample_uris,
                                          del_pos, lims, lims_calls>>
                           /\ recon' = NoRecon
                           /\ route' = NoRoute
                           /\ harvest' = [called |-> TRUE, kinds |-> kinds]
                           /\ UNCHANGED <<clock, audit>>
                           /\ UNCHANGED site

\* ----------------------------------------------------------- reconciliation
\* get_sample_info, lines 202-223: name, location and container uri of each
\* sample already in the project.
get_sample_info(prj_smps) ==
    {Sample(s.name, s.location, s.con) : s \in prj_smps}

\* A get_containers that asks for the container of every sample.
PerSampleRequest(prj_smp_info) ==
    LET order == CHOOSE s \in Perms(prj_smp_info) : TRUE
    IN  [k \in DOMAIN order |-> order[k].container]

\* get_containers, lines 239-241: the container uris of one batch GET, a
\* list made of a set.
ConRequest(prj_smp_info) == UriSeq({i.container : i \in prj_smp_info})

\* get_containers, lines 239-248: container uri -> container name.
get_containers(prj_smp_info) ==
    {[uri |-> c.uri, name |-> c.name] :
        c \in {x \in containers : x.uri \in Range(ConRequest(prj_smp_info))}}

\* samples_differ, lines 168-179: the (name, location, container name) of
\* each sample of the project.
PrjSmpNames(prj_smp_info, con_uri_name) ==
    {Sample(i.name, i.location, (CHOOSE e \in con_uri_name : e.uri = i.container).name) :
        i \in prj_smp_info}

\* A samples_differ that puts each sample it keeps in front of the others.
AddedInFront(form_samples, prj_smp_names) ==
    LET Keep(sample) ==
            Sample(sample.name, sample.location, sample.con.name) \notin prj_smp_names
    IN  Reverse(SelectSeq(form_samples, Keep))

\* A samples_differ that does not compare with the samples of the project.
AllToAdd(form_samples, prj_smp_names) == form_samples

\* samples_differ, lines 182-186: the incoming samples not yet in the project.
SamplesToAdd(form_samples, prj_smp_names) ==
    LET Keep(sample) ==
            Sample(sample.name, sample.location, sample.con.name) \notin prj_smp_names
    IN  SelectSeq(form_samples, Keep)

\* A check_samples that drops nothing.
KeepAllSmps(form_samples, container_names) == form_samples

\* check_samples, lines 266-273: drop every sample whose container name is
\* one of container_names.
SmpsToKeep(form_samples, container_names) ==
    LET Keep(sample) == sample.con.name \notin container_names
    IN  SelectSeq(form_samples, Keep)

SmpsThatDiffer(form_samples, container_names) ==
    LET Drop(sample) == sample.con.name \in container_names
        dropped == SelectSeq(form_samples, Drop)
    IN  [i \in DOMAIN dropped |-> dropped[i].name]

\* A check_samples that drops silently.
NoLog(form_samples, container_names) == {}

\* check_samples, lines 274-282: the error it logs when it dropped something.
CheckSamplesLog(form_samples, container_names) ==
    IF form_samples # SmpsToKeep(form_samples, container_names)
    THEN {LogRec("error", "can't add the samples",
                 SmpsThatDiffer(form_samples, container_names), container_names)}
    ELSE {}

\* A samples_differ that resolves samples and containers whatever it is given.
AlwaysGets(prj_smps) == 3

\* samples_differ, lines 167-173: the GETs it issues (samples and artifacts in
\* get_sample_info, containers in get_containers), none for an empty project.
RemoteGets(prj_smps) == IF prj_smps = {} THEN 0 ELSE 3

\* samples_differ, lines 167-189, on the samples of the project in the LIMS.
samples_differ(form_samples, prj_smps) ==
    LET prj_smp_info == IF prj_smps = {} THEN {} ELSE get_sample_info(prj_smps)
        con_uri_name == IF prj_smps = {} THEN {} ELSE get_containers(prj_smp_info)
        prj_smp_names == PrjSmpNames(prj_smp_info, con_uri_name)
        container_names == {e.name : e \in con_uri_name}
        samples_to_add == SamplesToAdd(form_samples, prj_smp_names)
    IN  [samples |-> SmpsToKeep(samples_to_add, container_names),
         log |-> CheckSamplesLog(samples_to_add, container_names),
         existing |-> prj_smp_names,
         con_names |-> container_names,
         gets |-> RemoteGets(prj_smps),
         con_request |-> IF prj_smps = {} THEN <<>> ELSE ConRequest(prj_smp_info)]

\* A create_clarity_objs whose researcher step does not depend on new_proj.
ResearcherFirst(is_new, form_samples) == "create_researcher"

\* create_clarity_objs, lines 358 and 374: where the poster starts.
FirstStep(is_new, form_samples) ==
    IF is_new THEN "create_researcher"
    ELSE IF form_samples # <<>> THEN "create_containers"
    ELSE "next"

\* A main that reconciles whatever the two counts are.
AlwaysCompare(form_samples, prj_smp_limsids) == TRUE

\* main, line 504: the samples of the form and of the project differ in number.
CountsDiffer(form_samples, prj_smp_limsids) ==
    Len(form_samples) # Cardinality(prj_smp_limsids)

\* main, lines 492-515: the project is already in the LIMS.  Every GET of
\* these lines may fail, and nothing in main catches it.
Reconcile ==
    /\ pc = "branch"
    /\ name # NoName
    /\ \E got \in {"ok", "error"} :
          /\ Fault(got = "error")
          /\ IF got = "error" THEN Abort
             ELSE LET prj_uri == PrjLimsid(name)
                      prj_smps == SamplesOfProject(prj_uri)
                      d == samples_differ(prj_data.samples, prj_smps)
                  IN  IF CountsDiffer(prj_data.samples, prj_smps)
                      THEN /\ prj_data' = [prj_data EXCEPT !.uri = prj_uri,
                                                           !.samples = d.samples]
                           /\ log' = d.log
                           /\ recon' = [called |-> TRUE, incoming |-> prj_data.samples,
                                        existing |-> d.existing, con_names |-> d.con_names,
                                        gets |-> d.gets, con_request |-> d.con_request]
                           /\ route' = NoRoute
                           /\ harvest' = NoHarvest
                           /\ UNCHANGED <<clock, audit>>
                           /\ UNCHANGED site
                           /\ new_proj' = FALSE
                           /\ delete_list' = <<>>
                           /\ pc' = FirstStep(FALSE, d.samples)
                           /\ UNCHANGED <<driver, sample_uris, del_pos, lims, lims_calls>>
                      ELSE /\ pc' = "next"
                           /\ UNCHANGED <<driver, prj_data, new_proj, delete_list,
                                          sample_uris, del_pos, lims, lims_calls>>
                           /\ log' = {}
                           /\ recon' = NoRecon
                           /\ route' = NoRoute
                           /\ harvest' = NoHarvest
                           /\ UNCHANGED <<clock, audit>>
                           /\ UNCHANGED site

\* main, lines 516-518: a project the LIMS does not hold yet.
PostNew ==
    /\ pc = "branch"
    /\ name = NoName
    /\ new_proj' = TRUE
    /\ delete_list' = <<>>
    /\ pc' = FirstStep(TRUE, prj_data.samples)
    /\ UNCHANGED <<faults, driver, prj_data, sample_uris, del_pos, lims, lims_calls>>
    /\ log' = {}
    /\ recon' = NoRecon
    /\ route' = NoRoute
    /\ harvest' = NoHarvest
    /\ UNCHANGED <<clock, audit>>
    /\ UNCHANGED site

\* ------------------------------------------------------------------- poster
\* One entry of the history: a call of the poster, whether it returned, the
\* identifiers it returned and the delete list when it was made.
Call(op, kind, ok, uris, dl) ==
    [op |-> op, kind |-> kind, ok |-> ok, uris |-> uris, dl |-> dl]

\* A create_clarity_objs that forgets to record what a step returned.
NotRecorded(dl, uris) == dl

\* A create_clarity_objs that records the project whatever new_proj is.
ProjectRecorded(dl, uris) == <<prj_data.uri>> \o dl \o uris

\* create_clarity_objs, lines 361, 369, 377, 387: delete_list.append / extend.
Recorded(dl, uris) == dl \o uris

\* create_clarity_objs raises: post_project's except clause is next.
Raise(kind, uris) ==
    /\ pc' = "except"
    /\ lims_calls' = Append(lims_calls, Call("create", kind, FALSE, uris, delete_list))

\* A lookup that finds no researcher.
NoResearcherFound(res) == {}

\* ProjectLimsApi.get_researcher_uri, lines 50-58.
get_researcher_uri(res) == {r.uri : r \in {x \in researchers : x.name = res}}

\* LimsUtility.create_researcher, lines 359-372, with post_researcher, lines
\* 83-112: a researcher of that name is looked up, not posted again (the
\* history then has the lookup before the return of create_researcher).
CreateResearcher ==
    /\ pc = "create_researcher"
    /\ \E outcome \in {"ok", "error"} :
          /\ Fault(outcome = "error")
          /\ IF outcome = "error"
             THEN /\ Raise("researchers", <<>>)
                  /\ UNCHANGED <<driver, prj_data, new_proj, delete_list, sample_uris,
                                 del_pos, lims>>
                  /\ log' = {}
                  /\ recon' = NoRecon
                  /\ route' = NoRoute
                  /\ harvest' = NoHarvest
                  /\ UNCHANGED <<clock, audit>>
                  /\ UNCHANGED site
             ELSE LET found == get_researcher_uri(prj_data.res) IN
                  \E res_uri \in (IF found = {} THEN {Uri("researchers", next_id)} ELSE found) :
                     /\ researchers' = IF found = {}
                                       THEN researchers \cup {[uri |-> res_uri, name |-> prj_data.res]}
                                       ELSE researchers
                     /\ prj_data' = [prj_data EXCEPT !.res_uri = res_uri]
                     /\ delete_list' = Recorded(delete_list, <<res_uri>>)
                     /\ lims_calls' = Append(
                           IF found = {} THEN lims_calls
                           ELSE Append(lims_calls,
                                   Call("lookup", "researchers", TRUE, <<res_uri>>,
                                        delete_list)),
                           Call("create", "researchers", TRUE, <<res_uri>>, delete_list))
                     /\ pc' = "create_project"
                     /\ UNCHANGED <<driver, new_proj, sample_uris, del_pos, projects,
                                    containers, samples>>
                     /\ log' = {}
                     /\ recon' = NoRecon
                     /\ route' = NoRoute
                     /\ harvest' = NoHarvest
                     /\ UNCHANGED <<clock, audit>>
                     /\ UNCHANGED site

\* A create_clarity_objs that goes on to the containers whatever the form has.
ContainersAnyway(form_samples) == "create_containers"

\* create_clarity_objs, lines 374 and 397-398, then post_project, line 331:
\* without samples nothing more is posted, priced or routed.
AfterProject(form_samples) ==
    IF form_samples # <<>> THEN "create_containers" ELSE "next"

\* A post_project that does not look for a project of that name.
NoCollision(prj_name) == FALSE

\* ProjectLimsApi.post_project, lines 136-142: POSTNameCollision.
NameCollision(prj_name) == \E p \in projects : p.name = prj_name

\* LimsUtility.create_project, lines 392-396, with post_project, lines 136-159:
\* a project of that name is a POSTNameCollision.
CreateProject ==
    /\ pc = "create_project"
    /\ \E outcome \in {"ok", "error"} :
          /\ Fault(outcome = "error")
          /\ IF outcome = "error" \/ NameCollision(prj_data.name)
             THEN /\ Raise("projects", <<>>)
                  /\ UNCHANGED <<driver, prj_data, new_proj, delete_list, sample_uris,
                                 del_pos, lims>>
                  /\ log' = {}
                  /\ recon' = NoRecon
                  /\ route' = NoRoute
                  /\ harvest' = NoHarvest
                  /\ UNCHANGED <<clock, audit>>
                  /\ UNCHANGED site
             ELSE LET prj_uri == Uri("projects", next_id) IN
                     /\ projects' = projects \cup
                           {[uri |-> prj_uri, name |-> prj_data.name, res |-> prj_data.res_uri]}
                     /\ prj_data' = [prj_data EXCEPT !.uri = prj_uri]
                     /\ delete_list' = Recorded(delete_list, <<prj_uri>>)
                     /\ lims_calls' = Append(lims_calls,
                           Call("create", "projects", TRUE, <<prj_uri>>, delete_list))
                     /\ pc' = AfterProject(prj_data.samples)
                     /\ UNCHANGED <<driver, new_proj, sample_uris, del_pos, researchers,
                                    containers, samples>>
                     /\ log' = {}
                     /\ recon' = NoRecon
                     /\ route' = NoRoute
                     /\ harvest' = NoHarvest
                     /\ UNCHANGED <<clock, audit>>
                     /\ UNCHANGED site

\* -------------------------------------------------------------- containers
\* BeautifulSoup's Tag.name is the name of the tag, so line 185 collects
\* "container" once per container found, not the names of the containers.
TagName == <<"container">>

\* batch_post_containers, lines 182-185.
found_cons(form_samples) ==
    IF \E c \in containers : c.name \in {form_samples[i].con.name : i \in DOMAIN form_samples}
    THEN {TagName} ELSE {}

\* batch_post_containers, line 198.
Renamed(con_name, prj_name) == con_name \o <<"-">> \o prj_name

\* A batch_post_containers that does not check the container types.
NoBadType(form_samples) == 0

\* batch_post_containers, lines 201-206: the first sample whose container type
\* the LIMS does not know (0: none), where NotImplementedError is raised.
FirstBadType(form_samples) ==
    LET bad == {i \in DOMAIN form_samples : form_samples[i].con.con_type \notin KnownConTypes}
    IN  IF bad = {} THEN 0 ELSE CHOOSE i \in bad : \A j \in bad : i <= j

\* batch_post_containers, lines 195-206: the samples after the loop, which
\* renames in place and stops at the first unknown container type.
RenameLoop(form_samples, found, prj_name) ==
    LET stop == FirstBadType(form_samples)
    IN  [i \in DOMAIN form_samples |->
            IF (stop = 0 \/ i <= stop) /\ form_samples[i].con.name \in found
            THEN [form_samples[i] EXCEPT !.con.name = Renamed(@, prj_name)]
            ELSE form_samples[i]]

\* A batch_post_containers that posts one container for every sample.
OnePerSample(form_samples) ==
    [i \in DOMAIN form_samples |->
        [name |-> form_samples[i].con.name, con_type |-> form_samples[i].con.con_type]]

\* batch_post_containers, lines 227-228: one container per (name, type).
ConInfo(sample) == [name |-> sample.con.name, con_type |-> sample.con.con_type]

ConInfos(form_samples) ==
    LET First(i) == \A j \in 1..(i - 1) : ConInfo(form_samples[j]) # ConInfo(form_samples[i])
        firsts == SelectSeq([i \in DOMAIN form_samples |-> i], First)
    IN  [k \in DOMAIN firsts |-> ConInfo(form_samples[firsts[k]])]

\* The containers the LIMS creates for a batch.
NewContainers(con_infos) ==
    [i \in DOMAIN con_infos |->
        [uri |-> Uri("containers", next_id + i - 1),
         name |-> con_infos[i].name, con_type |-> con_infos[i].con_type]]

\* create_containers, lines 431-437: the uri each sample's container gets.
\* con_names_uris maps a name to one of the posted containers of that name.
PostedConUri(con_name, prj_name, con_names_uris) ==
    IF con_name \in DOMAIN con_names_uris THEN con_names_uris[con_name]
    ELSE IF Renamed(con_name, prj_name) \in DOMAIN con_names_uris
         THEN con_names_uris[Renamed(con_name, prj_name)]
         ELSE NoUri

\* LimsUtility.create_containers, lines 416-439, with batch_post_containers,
\* lines 182-252.  "error": a GET or the POST fails and nothing is created.
\* "error_after": the batch is created and a later GET (line 250 or 425) fails.
CreateContainers ==
    /\ pc = "create_containers"
    /\ LET looped == RenameLoop(prj_data.samples, found_cons(prj_data.samples), prj_data.name)
       IN  \E outcome \in {"ok", "error", "error_after"} :
           /\ Fault(outcome # "ok")
           /\ IF outcome = "error" \/ FirstBadType(prj_data.samples) # 0
              THEN /\ Raise("containers", <<>>)
                   /\ prj_data' = [prj_data EXCEPT !.samples =
                                       IF outcome = "error" THEN @ ELSE looped]
                   /\ UNCHANGED <<driver, new_proj, delete_list, sample_uris, del_pos,
                                  lims>>
                   /\ log' = {}
                   /\ recon' = NoRecon
                   /\ route' = NoRoute
                   /\ harvest' = NoHarvest
                   /\ UNCHANGED <<clock, audit>>
                   /\ UNCHANGED site
              ELSE \E answer \in Perms(Range(NewContainers(ConInfos(looped)))) :
                   LET new == NewContainers(ConInfos(looped))
                       con_uris == [i \in DOMAIN answer |-> answer[i].uri]
                       names == {new[i].name : i \in DOMAIN new}
                   IN  /\ containers' = containers \cup Range(new)
                       /\ IF outcome = "error_after"
                          THEN /\ Raise("containers", con_uris)
                               /\ prj_data' = [prj_data EXCEPT !.samples = looped]
                               /\ UNCHANGED delete_list
                          ELSE /\ \E con_names_uris \in
                                       {f \in [names -> Range(con_uris)] :
                                           \A n \in names : \E i \in DOMAIN new :
                                               new[i].name = n /\ new[i].uri = f[n]} :
                                     prj_data' = [prj_data EXCEPT !.samples =
                                        [i \in DOMAIN looped |->
                                           [looped[i] EXCEPT !.con.uri =
                                               PostedConUri(looped[i].con.name, prj_data.name,
                                                            con_names_uris)]]]
                               /\ delete_list' = Recorded(delete_list, con_uris)
                               /\ lims_calls' = Append(lims_calls,
                                     Call("create", "containers", TRUE, con_uris, delete_list))
                               /\ pc' = "create_samples"
                       /\ UNCHANGED <<driver, new_proj, sample_uris, del_pos, researchers,
                                      projects, samples>>
                       /\ log' = {}
                       /\ recon' = NoRecon
                       /\ route' = NoRoute
                       /\ harvest' = NoHarvest
                       /\ UNCHANGED <<clock, audit>>
                       /\ UNCHANGED site

\* ----------------------------------------------------------------- samples
\* The LIMS refuses a batch that puts two samples in one well, or a sample in
\* a well that is taken or in no container (the HTTPError of
\* test_batch_post_samples_already_in_system).
WellsFree(form_samples) ==
    /\ \A i \in DOMAIN form_samples :
          /\ \E c \in containers : c.uri = form_samples[i].con.uri
          /\ ~\E s \in samples : s.con = form_samples[i].con.uri
                                 /\ s.location = form_samples[i].location
    /\ \A i, j \in DOMAIN form_samples :
          (i # j /\ form_samples[i].con.uri = form_samples[j].con.uri)
              => form_samples[i].location # form_samples[j].location

\* A batch_post_samples that posts every custom field.
AllUdfs(udf_to_value, valid_udfs) == udf_to_value

\* batch_post_samples, lines 306-310: the udf:field tags left in the batch.
PostedUdfs(udf_to_value, valid_udfs) == {u \in udf_to_value : u \in valid_udfs}

\* batch_post_samples, lines 285-315: what the LIMS creates for the batch.
NewSamples(form_samples, prj_uri) ==
    [i \in DOMAIN form_samples |->
        [uri |-> Uri("samples", next_id + i - 1), name |-> form_samples[i].name,
         location |-> form_samples[i].location, con |-> form_samples[i].con.uri,
         prj |-> prj_uri, udfs |-> PostedUdfs(form_samples[i].udfs, ValidUdfs),
         label |-> NoAdapter]]

\* A create_samples that takes the first link of the answer for every sample.
FirstUri(smp_name, answer, uri) == answer[1].uri

\* create_samples, lines 464-467: the uri of the created sample of that name
\* (the last one of the answer, should several carry the name).
MatchedUri(smp_name, answer, uri) ==
    LET hits == {i \in DOMAIN answer : answer[i].name = smp_name}
    IN  IF hits = {} THEN uri
        ELSE answer[CHOOSE i \in hits : \A j \in hits : j <= i].uri

\* A post_project that checks the price of every post.
AlwaysPriced(uris, is_new) == IF uris = <<>> THEN "next" ELSE "price"

\* batch_post_samples, line 318: some sample of the batch declares an adapter.
HasAdapter(form_samples) ==
    \E i \in DOMAIN form_samples : form_samples[i].adapter # NoAdapter

\* A batch_post_samples that labels the artifacts in the order of the answer.
LabelByOrder(art, arts, form_samples) ==
    form_samples[CHOOSE i \in DOMAIN arts : arts[i] = art].adapter

\* batch_post_samples, lines 326-332: the label of an artifact of the answer
\* arts, that of the last sample in its container and well; its own if no
\* sample is there.
LabelFor(art, arts, form_samples) ==
    LET hits == {i \in DOMAIN form_samples :
                    /\ form_samples[i].con.uri = art.con
                    /\ form_samples[i].location = art.location}
    IN  IF hits = {} THEN art.label
        ELSE form_samples[CHOOSE i \in hits : \A j \in hits : j <= i].adapter

\* post_project, lines 331-335: what follows a successful post.
AfterPost(uris, is_new) ==
    IF uris = <<>> THEN "next" ELSE IF is_new THEN "price" ELSE "route"

\* LimsUtility.create_samples, lines 459-474, with batch_post_samples, lines
\* 278-334, and create_clarity_objs, lines 385-395.  "error": nothing is
\* created.  "error_after": the batch is created and a later call fails,
\* before or after the artifacts were labelled.  The artifacts are read in
\* an order of their own (arts).  "interrupt": the process is interrupted in
\* lines 388-393, after the samples were recorded.
CreateSamples ==
    /\ pc = "create_samples"
    /\ \E outcome \in {"ok", "error", "error_after", "interrupt"} :
          /\ Fault(outcome # "ok")
          /\ IF outcome = "error" \/ ~WellsFree(prj_data.samples)
             THEN /\ Raise("samples", <<>>)
                  /\ UNCHANGED <<driver, prj_data, new_proj, delete_list, sample_uris,
                                 del_pos, lims>>
                  /\ log' = {}
                  /\ recon' = NoRecon
                  /\ route' = NoRoute
                  /\ harvest' = NoHarvest
                  /\ UNCHANGED <<clock, audit>>
                  /\ UNCHANGED site
             ELSE LET new == NewSamples(prj_data.samples, prj_data.uri) IN
                  \E answer \in Perms(Range(new)), arts \in Perms(Range(new)) :
                  \E labelled \in (IF outcome = "error_after" THEN {FALSE, TRUE} ELSE {TRUE}) :
                  LET uris == [i \in DOMAIN answer |-> answer[i].uri]
                      labels == labelled /\ HasAdapter(prj_data.samples)
                      calls == IF labels
                               THEN Append(lims_calls,
                                       Call("label", "artifacts", TRUE,
                                            UriSeq({ArtifactOf(smp.uri) : smp \in Range(arts)}),
                                            delete_list))
                               ELSE lims_calls
                  IN /\ arts = (IF labels THEN arts ELSE answer)
                     /\ samples' = samples \cup
                           {IF labels
                            THEN [smp EXCEPT !.label = LabelFor(smp, arts, prj_data.samples)]
                            ELSE smp : smp \in Range(new)}
                     /\ labelled = (IF HasAdapter(prj_data.samples) THEN labelled ELSE TRUE)
                     /\ UNCHANGED <<driver, new_proj, del_pos, researchers, projects,
                                    containers>>
                     /\ log' = {}
                     /\ recon' = NoRecon
                     /\ route' = NoRoute
                     /\ harvest' = NoHarvest
                     /\ UNCHANGED <<clock, audit>>
                     /\ UNCHANGED site
                     /\ IF outcome = "error_after"
                        THEN /\ pc' = "except"
                             /\ lims_calls' = Append(calls,
                                   Call("create", "samples", FALSE, uris, delete_list))
                             /\ UNCHANGED <<prj_data, delete_list, sample_uris>>
                        ELSE /\ prj_data' = [prj_data EXCEPT !.samples =
                                   [i \in DOMAIN prj_data.samples |->
                                       [prj_data.samples[i] EXCEPT
                                           !.uri = MatchedUri(prj_data.samples[i].name,
                                                              answer, @),
                                           !.art_uri = ArtifactOf(
                                               MatchedUri(prj_data.samples[i].name, answer,
                                                          prj_data.samples[i].uri))]]]
                             /\ delete_list' = Recorded(delete_list, uris)
                             /\ IF outcome = "interrupt"
                                THEN /\ pc' = "except"
                                     /\ lims_calls' = Append(calls,
                                           Call("create", "samples", TRUE, uris, delete_list))
                                     /\ UNCHANGED sample_uris
                                ELSE /\ sample_uris' = uris
                                     /\ lims_calls' = Append(calls,
                                           Call("create", "samples", TRUE, uris, delete_list))
                                     /\ pc' = AfterPost(uris, new_proj)

\* ---------------------------------------------------------------- rollback
\* post_project, lines 301-327: what the except clause logs before it deletes.
ExceptLog(dl) ==
    LET failed_prjs == \E i \in DOMAIN dl : dl[i].kind = "projects"
        failed_res == \E i \in DOMAIN dl : dl[i].kind = "researchers"
    IN  (IF failed_res /\ ~failed_prjs
         THEN {LogRec("critical", "a researcher failed to post", <<>>, {})} ELSE {})
        \cup
        {IF failed_prjs
         THEN LogRec("error", "the project could not be transferred", <<>>, {})
         ELSE LogRec("error", "the samples could not be transferred",
                     [i \in DOMAIN prj_data.samples |-> prj_data.samples[i].name], {})}

PostProjectExcept ==
    /\ pc = "except"
    /\ log' = ExceptLog(delete_list)
    /\ lims_calls' = Append(lims_calls, Call("except", "", TRUE, <<>>, delete_list))
    /\ del_pos' = 1
    /\ pc' = "delete"
    /\ UNCHANGED <<faults, driver, prj_data, new_proj, delete_list, sample_uris, lims>>
    /\ recon' = NoRecon
    /\ route' = NoRoute
    /\ harvest' = NoHarvest
    /\ UNCHANGED <<clock, audit>>
    /\ UNCHANGED site

\* A delete_items that walks the list front to back.
ForwardOrder(dl) == dl

\* delete_items, line 407: the order in which the items are deleted.
DeleteOrder(dl) == Reverse(dl)

\* The LIMS deletes an item it holds and nothing refers to.
Deletable(item) ==
    /\ item \in LimsUris
    /\ item.kind = "researchers" => ~\E p \in projects : p.res = item
    /\ item.kind = "projects" => ~\E s \in samples : s.prj = item
    /\ item.kind = "containers" => ~\E s \in samples : s.con = item

\* delete_items, lines 407-412: one turn of the loop.  An HTTPError is
\* swallowed; any other exception of the call leaves delete_items,
\* post_project and main.
DeleteItem ==
    /\ pc = "delete"
    /\ del_pos <= Len(delete_list)
    /\ LET item == DeleteOrder(delete_list)[del_pos] IN
       \E outcome \in {"ok", "HTTPError", "error"} :
          /\ outcome = "ok" => Deletable(item)
          /\ Fault(outcome = "error" \/ (outcome = "HTTPError" /\ Deletable(item)))
          /\ lims_calls' = Append(lims_calls,
                Call("delete", item.kind, outcome = "ok", <<item>>, delete_list))
          /\ researchers' = IF outcome = "ok" THEN {r \in researchers : r.uri # item} ELSE researchers
          /\ projects' = IF outcome = "ok" THEN {r \in projects : r.uri # item} ELSE projects
          /\ containers' = IF outcome = "ok" THEN {r \in containers : r.uri # item} ELSE containers
          /\ samples' = IF outcome = "ok" THEN {r \in samples : r.uri # item} ELSE samples
          /\ pc' = IF outcome = "error" THEN "aborted" ELSE "delete"
          /\ del_pos' = IF outcome = "error" THEN del_pos ELSE del_pos + 1
          /\ UNCHANGED <<driver, prj_data, new_proj, delete_list, sample_uris>>
          /\ log' = {}
          /\ recon' = NoRecon
          /\ route' = NoRoute
          /\ harvest' = NoHarvest
          /\ UNCHANGED <<clock, audit>>
          /\ UNCHANGED site

\* delete_items and post_project return; main goes on with the next request.
RollbackDone ==
    /\ pc = "delete"
    /\ del_pos > Len(delete_list)
    /\ pc' = "next"
    /\ UNCHANGED <<faults, driver, prj_data, new_proj, delete_list, sample_uris, del_pos,
                   lims, lims_calls>>
    /\ log' = {}
    /\ recon' = NoRecon
    /\ route' = NoRoute
    /\ harvest' = NoHarvest
    /\ UNCHANGED <<clock, audit>>
    /\ UNCHANGED site

\* ------------------------------------------------------- price and routing
\* post_project, lines 332-333: core_specifics.get_price, outside any try.
GetPrice ==
    /\ pc = "price"
    /\ \E outcome \in {"ok", "error"} :
          /\ Fault(outcome = "error")
          /\ lims_calls' = Append(lims_calls,
                Call("price", "", outcome = "ok", <<>>, delete_list))
          /\ pc' = IF outcome = "ok" THEN "route" ELSE "aborted"
    /\ UNCHANGED <<driver, prj_data, new_proj, delete_list, sample_uris, del_pos, lims>>
    /\ log' = {}
    /\ recon' = NoRecon
    /\ route' = NoRoute
    /\ harvest' = NoHarvest
    /\ UNCHANGED <<clock, audit>>
    /\ UNCHANGED site

\* A route_strategy that compares the form name as it is written.
ExactSkip(form_name, unroutable) ==
    form_name \in unroutable \/ StrIn(RequestAQuote, form_name)

\* route_strategy, lines 499-501: the forms whose routing is skipped.
Skipped(form_name, unroutable) ==
    \/ Upper(Strip(form_name)) \in unroutable
    \/ StrIn(RequestAQuote, Upper(Strip(form_name)))

\* dict.get: the value of the key, or None.
DictGet(dict, key) == IF key \in DOMAIN dict THEN dict[key] ELSE NoFn

\* route_strategy, lines 499-505: the routing function it invokes, if any.
route_function(form_name, wf, unroutable) ==
    IF Skipped(form_name, unroutable) THEN NoFn
    ELSE DictGet(wf, form_name)

\* A route_strategy that is silent about forms without a routing function.
NoRouteLog(form_name, wf, unroutable) == {}

\* route_strategy, lines 507-517: the warning for a form that is neither
\* skipped nor mapped.
RouteLog(form_name, wf, unroutable) ==
    IF /\ ~Skipped(form_name, unroutable)
       /\ DictGet(wf, form_name) = NoFn
    THEN {LogRec("warning", "has not yet been implemented", <<>>, {})}
    ELSE {}

\* LimsUtility.route_strategy, lines 476-517, called with the artifacts arts:
\* the routing function of the site, when one is invoked, assigns the
\* artifacts to a workflow or raises, having assigned some of them or none.
CallRouteStrategy(form_name, arts, raised, done) ==
    LET fn == route_function(form_name, wf_locations, unroutable_forms)
    IN  /\ raised => fn # NoFn
        /\ done = IF fn = NoFn THEN {} ELSE IF raised THEN done ELSE arts
        /\ Fault(raised)
        /\ route' = [called |-> TRUE, form |-> form_name, fn |-> fn, raised |-> raised,
                     arts |-> arts, assigned |-> done]
        /\ harvest' = NoHarvest
        /\ UNCHANGED <<clock, audit>>
        /\ UNCHANGED site

\* route_samples, lines 425-440: get_arts_from_samples is outside the try,
\* route_strategy inside it. The name of the form is read here for the first
\* time since harvest_form let the form pass.
RouteSamples ==
    /\ pc = "route"
    /\ LET arts == [i \in DOMAIN sample_uris |-> ArtifactOf(sample_uris[i])]
       IN  \/ /\ Fault(TRUE)
              /\ lims_calls' = Append(lims_calls,
                    Call("route", "get_arts error", FALSE, arts, delete_list))
              /\ pc' = "aborted"
              /\ log' = {}
              /\ route' = NoRoute
              /\ harvest' = NoHarvest
              /\ UNCHANGED <<clock, audit>>
              /\ UNCHANGED site
           \/ \E form_name \in HarvestedNames, raised \in BOOLEAN, done \in SUBSET Range(arts) :
                 /\ CallRouteStrategy(form_name, Range(arts), raised, done)
                 /\ lims_calls' = Append(lims_calls,
                       Call("route", IF raised THEN "route_strategy error" ELSE "ok",
                            ~raised, arts, delete_list))
                 /\ pc' = "next"
                 /\ log' = IF raised
                           THEN {LogRec("warning", "could not be routed", <<>>, {})}
                           ELSE RouteLog(form_name, wf_locations, unroutable_forms)
    /\ UNCHANGED <<driver, prj_data, new_proj, delete_list, sample_uris, del_pos, lims>>
    /\ recon' = NoRecon

\* ------------------------------------------------------------ specification
Next ==
    \/ StartRun
    \/ BeginRequest
    \/ HarvestForm
    \/ Reconcile
    \/ PostNew
    \/ CreateResearcher
    \/ CreateProject
    \/ CreateContainers
    \/ CreateSamples
    \/ PostProjectExcept
    \/ DeleteItem
    \/ RollbackDone
    \/ GetPrice
    \/ RouteSamples
    \/ NextIteration
    \/ FinishRun

Spec == Init /\ [][Next]_vars

\* ------------------------------------------- reconciliation studied on its own
\* main has reached line 492 for request "1": the LIMS holds its project with
\* some samples in their containers, possibly a container of someone else's,
\* and harvest_form returned a form with up to MaxIncoming samples.
ReconPrj ==
    [uri |-> Uri("projects", 2), name |-> ProjectName(<<"1">>),
     res |-> Uri("researchers", 1)]

ConIdx(c) == IF c = <<"Plate1">> THEN 1 ELSE 2
NameIdx(n) == CHOOSE i \in 1..Len(SmpNames) : SmpNames[i] = n
WellIdx(l) == CHOOSE i \in 1..4 : Well(i) = l

\* The container the project keeps under that name, and the sample of a triple.
ReconCon(c) == [uri |-> Uri("containers", 2 + ConIdx(c)), name |-> c, con_type |-> "plate"]
ReconSmp(t) ==
    [uri |-> Uri("samples", 5 + 8 * (NameIdx(t.name) - 1)
                              + 2 * (WellIdx(t.location) - 1) + ConIdx(t.container)),
     name |-> t.name, location |-> t.location, con |-> ReconCon(t.container).uri,
     prj |-> ReconPrj.uri, udfs |-> {}, label |-> NoAdapter]

\* What the project may hold: no two samples in one well.
ExistingTriples ==
    {Sample(SmpNames[i], Well(j), c) : i \in 1..2, j \in 1..2, c \in ConNames}
ExistingSets ==
    {E \in SUBSET ExistingTriples :
        /\ Cardinality(E) <= MaxExisting
        /\ \A t, u \in E : (t.location = u.location /\ t.container = u.container) => t = u}

\* The forms harvest_form may return: plates, any container per sample.
ReconIncoming ==
    UNION {{[i \in 1..n |-> IncomingSample(i, Well(i), c[i], "plate")] :
               c \in [1..n -> ConNames]} : n \in 0..MaxIncoming}

InitReconcile ==
    \E E \in ExistingSets, inc \in ReconIncoming, foreign \in {NoName} \cup ConNames :
        /\ begun = 1
        /\ faults = 0
        /\ pc = "branch"
        /\ to_process = << <<"1">> >>
        /\ idx = 1
        /\ clarity_prj_ids = {[name |-> ReconPrj.name, limsid |-> ReconPrj.uri]}
        /\ name = ReconPrj.name
        /\ prj_data = [NoData EXCEPT !.req_id = <<"1">>, !.name = ReconPrj.name,
                                     !.res = "Ann", !.samples = inc]
        /\ new_proj = FALSE
        /\ delete_list = <<>>
        /\ sample_uris = <<>>
        /\ del_pos = 0
        /\ researchers = {[uri |-> Uri("researchers", 1), name |-> "Ann"]}
        /\ projects = {ReconPrj}
        /\ containers = {ReconCon(t.container) : t \in E}
                        \cup (IF foreign = NoName THEN {}
                              ELSE {[uri |-> Uri("containers", 5), name |-> foreign,
                                     con_type |-> "plate"]})
        /\ samples = {ReconSmp(t) : t \in E}
        /\ lims_calls = <<>>
        /\ log = {}
        /\ recon = NoRecon
        /\ wf_locations = TemplateSite.wf
        /\ unroutable_forms = TemplateSite.unroutable
        /\ route = NoRoute
        /\ harvest = NoHarvest
        /\ clock = 0
        /\ audit = {}

NextReconcile == Reconcile

SpecReconcile == InitReconcile /\ [][NextReconcile]_vars

\* ------------------------------------------------- the poster studied on its own
\* post_project(prj_data, True) is called for request "1" while the LIMS holds
\* what others left there: possibly a researcher of that name, possibly a
\* project of that name, possibly a container of one of the form's names.
\* The form's samples carry custom fields.
PosterForms ==
    UNION {{[i \in DOMAIN f |-> [f[i] EXCEPT !.udfs = u[i]]] :
               u \in [DOMAIN f -> SUBSET UdfNames]} : f \in FormSamples}

PosterRes == [uri |-> Uri("researchers", 1), name |-> "Ann"]

InitPoster ==
    \E earlier \in {"nothing", "researcher", "project"},
       foreign \in {NoName} \cup ConNames,
       form_samples \in PosterForms :
        /\ begun = 1
        /\ faults = 0
        /\ pc = "branch"
        /\ to_process = << <<"1">> >>
        /\ idx = 1
        /\ clarity_prj_ids = {}
        /\ name = NoName
        /\ prj_data = [NoData EXCEPT !.req_id = <<"1">>, !.name = ProjectName(<<"1">>),
                                     !.res = "Ann", !.samples = form_samples]
        /\ new_proj = FALSE
        /\ delete_list = <<>>
        /\ sample_uris = <<>>
        /\ del_pos = 0
        /\ researchers = IF earlier = "nothing" THEN {} ELSE {PosterRes}
        /\ projects = IF earlier = "project" THEN {ReconPrj} ELSE {}
        /\ containers = IF foreign = NoName THEN {}
                        ELSE {[uri |-> Uri("containers", 5), name |-> foreign,
                               con_type |-> "plate"]}
        /\ samples = {}
        /\ lims_calls = <<>>
        /\ log = {}
        /\ recon = NoRecon
        /\ wf_locations = TemplateSite.wf
        /\ unroutable_forms = TemplateSite.unroutable
        /\ route = NoRoute
        /\ harvest = NoHarvest
        /\ clock = 0
        /\ audit = {}

NextPoster ==
    \/ PostNew
    \/ CreateResearcher
    \/ CreateProject
    \/ CreateContainers
    \/ CreateSamples
    \/ PostProjectExcept
    \/ DeleteItem
    \/ RollbackDone
    \/ GetPrice
    \/ RouteSamples

SpecPoster == InitPoster /\ [][NextPoster]_vars

\* ------------------------------------------- both branches of main on their own
\* main from line 492 to the end of post_project, on the project and the
\* forms of InitReconcile (the project is in the LIMS) and on the LIMS and the
\* forms of InitPoster (it is not).
InitBranch == InitReconcile \/ InitPoster

NextBranch ==
    \/ Reconcile
    \/ PostNew
    \/ CreateResearcher
    \/ CreateProject
    \/ CreateContainers
    \/ CreateSamples
    \/ PostProjectExcept
    \/ DeleteItem
    \/ RollbackDone
    \/ GetPrice
    \/ RouteSamples

SpecBranch == InitBranch /\ [][NextBranch]_vars

\* --------------------------------------------- a run after earlier failures
\* main starts with a log file that holds failures of earlier runs, each with
\* the ProjectRecord of its request: half an hour or an hour and a half old.
StartedAt == 120
RecordAges == {30, 90}
EarlierFailures ==
    SUBSET {ProjectRecord(ProjectName(req_id), StartedAt - age) :
               req_id \in ReqIds, age \in RecordAges}

InitRetry ==
    \E failures \in EarlierFailures :
        /\ begun = 0
        /\ faults = 0
        /\ pc = "idle"
        /\ to_process = <<>>
        /\ idx = 0
        /\ clarity_prj_ids = {}
        /\ name = NoName
        /\ prj_data = NoData
        /\ new_proj = FALSE
        /\ delete_list = <<>>
        /\ sample_uris = <<>>
        /\ del_pos = 0
        /\ researchers = {}
        /\ projects = {}
        /\ containers = {}
        /\ samples = {}
        /\ lims_calls = <<>>
        /\ log = {}
        /\ recon = NoRecon
        /\ wf_locations = TemplateSite.wf
        /\ unroutable_forms = TemplateSite.unroutable
        /\ route = NoRoute
        /\ harvest = NoHarvest
        /\ clock = StartedAt
        /\ audit = failures

\* main up to the form of each request.
NextRetry ==
    \/ StartRun
    \/ BeginRequest
    \/ HarvestForm
    \/ NextIteration
    \/ FinishRun

SpecRetry == InitRetry /\ [][NextRetry]_vars

\* ------------------------------------------------ a run after earlier runs
\* main starts on a LIMS that earlier runs of main left: the project of
\* request "1" with the sample A of its form in Plate1, and possibly the
\* project of request "21", posted for a form without samples.
OtherPrj ==
    [uri |-> Uri("projects", 7), name |-> ProjectName(<<"2", "1">>),
     res |-> Uri("researchers", 1)]
EarlierSample == Sample(SmpNames[1], Well(1), <<"Plate1">>)

InitRerun ==
    \E others \in SUBSET {OtherPrj} :
        /\ begun = 0
        /\ faults = 0
        /\ pc = "idle"
        /\ to_process = <<>>
        /\ idx = 0
        /\ clarity_prj_ids = {}
        /\ name = NoName
        /\ prj_data = NoData
        /\ new_proj = FALSE
        /\ delete_list = <<>>
        /\ sample_uris = <<>>
        /\ del_pos = 0
        /\ researchers = {[uri |-> Uri("researchers", 1), name |-> "Ann"]}
        /\ projects = {ReconPrj} \cup others
        /\ containers = {ReconCon(EarlierSample.container)}
        /\ samples = {ReconSmp(EarlierSample)}
        /\ lims_calls = <<>>
        /\ log = {}
        /\ recon = NoRecon
        /\ \E site_config \in MainSites :
              /\ wf_locations = site_config.wf
              /\ unroutable_forms = site_config.unroutable
        /\ route = NoRoute
        /\ harvest = NoHarvest
        /\ clock = 0
        /\ audit = {}

SpecRerun == InitRerun /\ [][Next]_vars

\* ------------------------------------------- the batch posts on their own
\* create_clarity_objs has reached line 374 for a project the LIMS holds: the
\* form has up to MaxBatch samples, each in a well of its own, in containers
\* of two names and two types, some with an adapter.
AdapterOf(i) == <<"L1", "L2", "L3", "L4">>[i]
BatchTypes == {[i \in 1..4 |-> "plate"],
               [i \in 1..4 |-> IF i % 2 = 1 THEN "plate" ELSE "tube"]}
BatchAdapters == {[i \in 1..4 |-> NoAdapter],
                  [i \in 1..4 |-> IF i = 1 THEN NoAdapter ELSE AdapterOf(i)]}
BatchForms ==
    UNION {
        {[i \in 1..n |->
             [IncomingSample(i, Well(i), c[i], t[i]) EXCEPT !.adapter = a[i]]] :
            c \in {f \in [1..n -> ConNames] : f[1] = <<"Plate1">>},
            t \in BatchTypes, a \in BatchAdapters}
        : n \in 1..MaxBatch}

InitBatch ==
    \E form_samples \in BatchForms :
        /\ begun = 1
        /\ faults = 0
        /\ pc = "create_containers"
        /\ to_process = << <<"1">> >>
        /\ idx = 1
        /\ clarity_prj_ids = {[name |-> ReconPrj.name, limsid |-> ReconPrj.uri]}
        /\ name = ReconPrj.name
        /\ prj_data = [NoData EXCEPT !.req_id = <<"1">>, !.name = ReconPrj.name,
                                     !.res = "Ann", !.uri = ReconPrj.uri,
                                     !.samples = form_samples]
        /\ new_proj = FALSE
        /\ delete_list = <<>>
        /\ sample_uris = <<>>
        /\ del_pos = 0
        /\ researchers = {[uri |-> Uri("researchers", 1), name |-> "Ann"]}
        /\ projects = {ReconPrj}
        /\ containers = {}
        /\ samples = {}
        /\ lims_calls = <<>>
        /\ log = {}
        /\ recon = NoRecon
        /\ wf_locations = TemplateSite.wf
        /\ unroutable_forms = TemplateSite.unroutable
        /\ route = NoRoute
        /\ harvest = NoHarvest
        /\ clock = 0
        /\ audit = {}

NextBatch ==
    \/ CreateContainers
    \/ CreateSamples

SpecBatch == InitBatch /\ [][NextBatch]_vars

\* ------------------------------------------------ route_strategy on its own
\* LimsUtility.route_strategy called as its test calls it: the samples of a
\* form have been posted to a project of the LIMS, their artifacts have been
\* read, and the site has its configuration.
RoutePosted ==
    SUBSET {Sample("A", Well(1), <<"Plate1">>), Sample("B", Well(2), <<"Plate1">>)} \ {{}}

InitRoute ==
    \E posted \in RoutePosted, site_config \in SiteConfigs :
        /\ begun = 1
        /\ faults = 0
        /\ pc = "route_strategy"
        /\ to_process = << <<"1">> >>
        /\ idx = 1
        /\ clarity_prj_ids = {}
        /\ name = NoName
        /\ prj_data = [NoData EXCEPT !.req_id = <<"1">>, !.name = ReconPrj.name,
                                     !.res = "Ann", !.uri = ReconPrj.uri]
        /\ new_proj = FALSE
        /\ delete_list = <<>>
        /\ sample_uris = UriSeq({ReconSmp(t).uri : t \in posted})
        /\ del_pos = 0
        /\ researchers = {[uri |-> Uri("researchers", 1), name |-> "Ann"]}
        /\ projects = {ReconPrj}
        /\ containers = {ReconCon(t.container) : t \in posted}
        /\ samples = {ReconSmp(t) : t \in posted}
        /\ lims_calls = <<>>
        /\ log = {}
        /\ recon = NoRecon
        /\ wf_locations = site_config.wf
        /\ unroutable_forms = site_config.unroutable
        /\ route = NoRoute
        /\ harvest = NoHarvest
        /\ clock = 0
        /\ audit = {}

\* One call of route_strategy, with any form name: it returns or lets the
\* exception of the routing function through.
RouteStrategy ==
    /\ pc = "route_strategy"
    /\ LET arts == {ArtifactOf(u) : u \in Range(sample_uris)}
       IN  \E form_name \in FormNames, raised \in BOOLEAN, done \in SUBSET arts :
              /\ CallRouteStrategy(form_name, arts, raised, done)
              /\ pc' = IF raised THEN "raised" ELSE "returned"
              /\ log' = IF raised THEN {}
                        ELSE RouteLog(form_name, wf_locations, unroutable_forms)
    /\ UNCHANGED <<driver, prj_data, new_proj, delete_list, sample_uris, del_pos, lims,
                   lims_calls>>
    /\ recon' = NoRecon

NextRoute == RouteStrategy

SpecRoute == InitRoute /\ [][NextRoute]_vars

\* ------------------------------------------------------------- observations
\* The calls of one kind in the history of the request in progress.
Calls(op) ==
    LET Is(c) == c.op = op IN SelectSeq(lims_calls, Is)

\* Researcher, project, containers, samples.
KindRank(kind) ==
    CASE kind = "researchers" -> 1
      [] kind = "projects" -> 2
      [] kind = "containers" -> 3
      [] kind = "samples" -> 4
      [] OTHER -> 0

\* create_clarity_objs raised in the request in progress.
HasExcept == Calls("except") # <<>>

\* What the LIMS holds for the project samples_differ was called for.
ConNameOf(con_uri) == (CHOOSE c \in containers : c.uri = con_uri).name
Triple(sample) == Sample(sample.name, sample.location, sample.con.name)
ProjectTriples ==
    {Sample(s.name, s.location, ConNameOf(s.con)) : s \in SamplesOfProject(prj_data.uri)}
ProjectConNames == {t.container : t \in ProjectTriples}

\* ------------------------------------------------------------------- C1
\* C1: if create_clarity_objs fails, then when post_project returns nothing
\* the call created is left in the LIMS.  (Projects, containers and samples
\* are always created; a researcher may have been looked up.)
C1_NoResidue ==
    (pc = "next" /\ HasExcept) =>
        \A i \in DOMAIN lims_calls :
            (lims_calls[i].op = "create" /\ lims_calls[i].kind # "researchers")
                => Range(lims_calls[i].uris) \cap LimsUris = {}

\* ------------------------------------------------------------------- C2
\* C2: on rollback delete_items issues the deletes in exactly the reverse of
\* the order in which the identifiers were put on the delete list, so every
\* sample delete precedes every container delete, which precedes the project
\* delete, which precedes the researcher delete.
C2_ReverseDeletes ==
    LET dels == Calls("delete") IN
        /\ \A i \in DOMAIN dels :
              dels[i].uris = <<delete_list[Len(delete_list) + 1 - i]>>
        /\ \A i, j \in DOMAIN dels :
              i < j => KindRank(dels[i].kind) >= KindRank(dels[j].kind)

\* A rollback that deleted a sample, a container, the project and the researcher.
C2_Witness ==
    /\ pc = "next"
    /\ \A k \in 1..4 : \E i \in DOMAIN lims_calls :
          lims_calls[i].op = "delete" /\ KindRank(lims_calls[i].kind) = k

\* ------------------------------------------------------------------- C3
\* C3: with new_proj true the create calls occur in the order researcher,
\* project, container batch, sample batch; a step is attempted only after
\* every earlier step returned, and what a step returned is on the delete
\* list before the next step starts.
C3_CreateOrder ==
    LET cr == Calls("create") IN
    new_proj =>
        /\ \A i \in DOMAIN cr : KindRank(cr[i].kind) = i
        /\ \A i, j \in DOMAIN cr : i < j => cr[i].ok
        /\ \A i, j \in DOMAIN lims_calls :
              (i < j /\ lims_calls[i].op = "create" /\ lims_calls[i].ok)
                  => Range(lims_calls[i].uris) \subseteq Range(lims_calls[j].dl)
        /\ \A i \in DOMAIN cr : cr[i].ok => Range(cr[i].uris) \subseteq Range(delete_list)

\* All four steps returned and post_project goes on to the price.
C3_Witness ==
    /\ new_proj
    /\ pc = "price"
    /\ Len(Calls("create")) = 4
    /\ \A i \in DOMAIN lims_calls : lims_calls[i].ok

\* ------------------------------------------------------------------- C4
\* C4, as the code has it: after samples_differ the form's samples are the
\* samples of S1 whose (name, location, container name) is not in S2 and
\* whose container name is not the name of a container of a sample of S2.
C4_Difference ==
    LET Novel(s) == Triple(s) \notin ProjectTriples /\ s.con.name \notin ProjectConNames
    IN  recon.called => prj_data.samples = SelectSeq(recon.incoming, Novel)

\* samples_differ dropped a sample the project holds and kept another.
C4_Witness ==
    /\ recon.called
    /\ \E i \in DOMAIN recon.incoming : Triple(recon.incoming[i]) \in ProjectTriples
    /\ prj_data.samples # <<>>

\* C4 as stated: the form's samples are exactly S1 \ S2 under triple equality.
C4_Stated ==
    LET Novel(s) == Triple(s) \notin ProjectTriples
    IN  recon.called => prj_data.samples = SelectSeq(recon.incoming, Novel)

\* ------------------------------------------------------------------- C5
\* C5, as the code has it: after samples_differ no remaining sample has the
\* container name of a container that holds a sample of the project, and
\* every sample removed for this reason is named in the logged error together
\* with the container names.
C5_NoSharedContainer ==
    recon.called =>
        /\ \A i \in DOMAIN prj_data.samples :
              prj_data.samples[i].con.name \notin ProjectConNames
        /\ \A i \in DOMAIN recon.incoming :
              LET s == recon.incoming[i] IN
              (Triple(s) \notin ProjectTriples /\ s.con.name \in ProjectConNames)
                  => \E r \in log : /\ r.level = "error"
                                    /\ s.name \in Range(r.samples)
                                    /\ s.con.name \in r.containers

\* A sample with a new triple was removed for its container, another was kept.
C5_Witness ==
    /\ recon.called
    /\ prj_data.samples # <<>>
    /\ \E i \in DOMAIN recon.incoming :
          /\ Triple(recon.incoming[i]) \notin ProjectTriples
          /\ recon.incoming[i].con.name \in ProjectConNames

\* C5 as stated: no remaining sample has the name of any container of the LIMS.
C5_Stated ==
    recon.called =>
        \A i \in DOMAIN prj_data.samples :
            prj_data.samples[i].con.name \notin {c.name : c \in containers}

\* ------------------------------------------------------------------- C6
\* A, B, C in wells 1, 2, 3 of Plate1, and a project that holds (A, 1, Plate1).
Scenario ==
    /\ recon.called
    /\ recon.incoming = [i \in 1..3 |-> IncomingSample(i, Well(i), <<"Plate1">>, "plate")]
    /\ ProjectTriples = {Sample("A", "1", <<"Plate1">>)}

\* C6, as the code has it: in the scenario reconciliation leaves nothing to
\* post and reports B and C with Plate1; in general a sample not yet
\* transferred that shares its container with a transferred sample of the
\* project is dropped.
C6_SharedContainerDropped ==
    /\ Scenario =>
          /\ prj_data.samples = <<>>
          /\ log = {LogRec("error", "can't add the samples", <<"B", "C">>, {<<"Plate1">>})}
    /\ recon.called =>
          \A i \in DOMAIN recon.incoming :
              (/\ Triple(recon.incoming[i]) \notin ProjectTriples
               /\ \E t \in ProjectTriples : t.container = recon.incoming[i].con.name)
                  => \A k \in DOMAIN prj_data.samples :
                        prj_data.samples[k].name # recon.incoming[i].name

\* The scenario has been reconciled.
C6_Witness == Scenario /\ pc = "next"

\* C6 as stated: in the scenario exactly B and C are left to be posted.
C6_Stated ==
    Scenario => [i \in DOMAIN prj_data.samples |-> prj_data.samples[i].name] = <<"B", "C">>

\* ------------------------------------------------------------------- C7
\* C7: no failure while a request is processed keeps main from processing
\* the later requests and reaching 'Finished Run': main is never left through
\* an exception once the loop has begun.
C7_NeverAborts == ~(pc = "aborted" /\ idx >= 1)

\* ------------------------------------------------------------------- C8
\* C8: whenever create_clarity_objs raises, post_project rolls back, calls
\* neither the price check nor the router, and returns to the driver.
C8_RollbackReturns ==
    HasExcept =>
        /\ pc \in {"delete", "next"}
        /\ Calls("price") = <<>>
        /\ Calls("route") = <<>>

\* ------------------------------------------------------------------- C9
\* C9: any failure while routing is caught and logged as a warning; nothing
\* is deleted and the run continues with the next request.
C9_RoutingFailureCaught ==
    \A i \in DOMAIN lims_calls :
        (lims_calls[i].op = "route" /\ ~lims_calls[i].ok) =>
            /\ pc = "next"
            /\ \E r \in log : r.level = "warning"
            /\ Calls("delete") = <<>>

LastCall == IF lims_calls = <<>> THEN Call("", "", TRUE, <<>>, <<>>)
            ELSE lims_calls[Len(lims_calls)]

\* ------------------------------------------------------------------ C11
\* C11: create_researcher for a name the LIMS already holds posts nothing and
\* returns the identifier of the researcher found, so a second call with the
\* same name returns what the first returned and the LIMS never holds two
\* researchers of one name.
C11_ResearcherIdempotent ==
    [][(pc = "create_researcher" /\ pc' = "create_project") =>
          LET had == {r \in researchers : r.name = prj_data.res} IN
          /\ had # {} => /\ researchers' = researchers
                         /\ prj_data'.res_uri \in {r.uri : r \in had}
          /\ \A r1, r2 \in researchers' : r1.name = r2.name => r1 = r2]_vars

\* create_researcher returned the researcher of a project of an earlier request.
C11_Witness ==
    /\ pc = "create_project"
    /\ LastCall.kind = "researchers" /\ LastCall.ok
    /\ \E p \in projects : p.res = prj_data.res_uri
    /\ Cardinality(researchers) = 1

\* ------------------------------------------------------------------ C12
\* C12: create_project with a name the LIMS already holds raises
\* POSTNameCollision and creates no project; in the poster this is a failure
\* of the request (the except clause of post_project is next).
C12_ProjectCollision ==
    [][(pc = "create_project" /\ \E p \in projects : p.name = prj_data.name) =>
          /\ pc' = "except"
          /\ projects' = projects
          /\ ~lims_calls'[Len(lims_calls')].ok
          /\ lims_calls'[Len(lims_calls')].kind = "projects"]_vars

\* The project step failed though no remote call did: the name was taken.
C12_Witness ==
    /\ pc = "except"
    /\ faults = 0
    /\ LastCall.kind = "projects" /\ ~LastCall.ok
    /\ \E p \in projects : p.name = prj_data.name

\* ------------------------------------------------------------------ C13
\* A sample of the form has a container type the LIMS does not know.
UnknownType ==
    \E i \in DOMAIN prj_data.samples : prj_data.samples[i].con.con_type \notin KnownConTypes

C14_UdfsFiltered ==
    \A i \in DOMAIN prj_data.samples : \A s \in samples :
        (s.prj = prj_data.uri /\ s.name = prj_data.samples[i].name) =>
            /\ \A u \in prj_data.samples[i].udfs : u \in s.udfs <=> u \in ValidUdfs
            /\ s.udfs \subseteq prj_data.samples[i].udfs

\* A sample with a field the LIMS knows and one it does not was posted.
C14_Witness ==
    /\ pc = "price"
    /\ faults = 0
    /\ \E i \in DOMAIN prj_data.samples : \E s \in samples :
          /\ s.uri = prj_data.samples[i].uri
          /\ prj_data.samples[i].udfs = {"Conc", "Fake"}
          /\ s.udfs = {"Conc"}

\* ------------------------------------------------------------------ C15
\* C15: when a sample's container name is the name of a container already in
\* the LIMS, create_containers posts the container as '<name>-<project name>'
\* and the sample then carries that name and the uri of the new container.
C15_RenamedOnCollision ==
    [][(pc = "create_containers" /\ pc' = "create_samples") =>
          \A i \in DOMAIN prj_data.samples :
              (\E c \in containers : c.name = prj_data.samples[i].con.name) =>
                  LET renamed == Renamed(prj_data.samples[i].con.name, prj_data.name) IN
                  /\ prj_data'.samples[i].con.name = renamed
                  /\ \E c \in containers' \ containers :
                        c.name = renamed /\ c.uri = prj_data'.samples[i].con.uri]_vars

\* ------------------------------------------------------------------ C16
\* C16: in delete_items the failure of one delete is not raised to the caller
\* and does not keep the remaining identifiers from being tried: once the
\* rollback is over, delete_items has returned and every identifier of the
\* delete list was tried.
C16_DeleteFailureSwallowed ==
    (HasExcept /\ pc \in {"next", "aborted"}) =>
        /\ pc = "next"
        /\ Len(Calls("delete")) = Len(delete_list)

\* ------------------------------------------------------------------ C17
\* C17: if the project holds no sample, samples_differ leaves every incoming
\* sample in the form, unchanged and in the same order, and issues no GET for
\* samples, artifacts or containers.
C17_EmptyProject ==
    (recon.called /\ SamplesOfProject(prj_data.uri) = {}) =>
        /\ prj_data.samples = recon.incoming
        /\ recon.gets = 0
        /\ log = {}

\* samples_differ was given several samples for a project without samples,
\* while the LIMS holds a container of one of their names.
C17_Witness ==
    /\ recon.called
    /\ SamplesOfProject(prj_data.uri) = {}
    /\ Len(recon.incoming) >= 2
    /\ \E c \in containers : c.name = recon.incoming[1].con.name

\* ------------------------------------------------------------------ C18
\* C18: reconciliation is idempotent: samples_differ applied to its own
\* result, with the same samples in the LIMS, leaves the list unchanged.
C18_Idempotent ==
    recon.called =>
        samples_differ(prj_data.samples, SamplesOfProject(prj_data.uri)).samples
            = prj_data.samples

\* samples_differ dropped some samples and kept several.
C18_Witness ==
    /\ recon.called
    /\ Len(prj_data.samples) >= 2
    /\ Len(prj_data.samples) < Len(recon.incoming)

\* ------------------------------------------------------------------ C19
\* C19: route_strategy invokes no routing function when the form name,
\* stripped and upper-cased, is in the skip-list of the site or contains
\* "REQUEST A QUOTE"; otherwise it invokes exactly the function the site maps
\* to the form name as it is written, if there is one.
C19_RouteStrategy ==
    route.called =>
        IF \/ Upper(Strip(route.form)) \in unroutable_forms
           \/ StrIn(RequestAQuote, Upper(Strip(route.form)))
        THEN route.fn = NoFn /\ route.assigned = {} /\ log = {}
        ELSE IF route.form \in DOMAIN wf_locations
             THEN route.fn = wf_locations[route.form]
             ELSE route.fn = NoFn

\* A form whose name is mapped as it is written, and is skipped only once it
\* is stripped and upper-cased, was handed to route_strategy.
C19_Witness ==
    /\ route.called
    /\ route.form = DnaPadded
    /\ DnaPadded \in DOMAIN wf_locations
    /\ Dna \in unroutable_forms
    /\ pc = "returned"

\* ------------------------------------------------------------------ C20
\* C20: for a form name that is neither skipped nor mapped, route_strategy
\* logs the warning that the route is not implemented and raises nothing; the
\* samples stay in the LIMS and none of their artifacts is assigned.
C20_Unimplemented ==
    (/\ route.called
     /\ Upper(Strip(route.form)) \notin unroutable_forms
     /\ ~StrIn(RequestAQuote, Upper(Strip(route.form)))
     /\ route.form \notin DOMAIN wf_locations) =>
        /\ log = {LogRec("warning", "has not yet been implemented", <<>>, {})}
        /\ ~route.raised
        /\ pc = "returned"
        /\ route.assigned = {}
        /\ route.arts # {}
        /\ \A a \in route.arts : \E smp \in samples : ArtifactOf(smp.uri) = a

\* route_strategy was given a form whose name, upper-cased, is a key of the
\* mapping of the site, but not as it is written.
C20_Witness ==
    /\ route.called
    /\ route.form = DnaLower
    /\ Dna \in DOMAIN wf_locations
    /\ unroutable_forms = {}
    /\ Cardinality(route.arts) = 2

\* ------------------------------------------------------------------ C21
\* C21: a request is skipped at form extraction exactly when none of its
\* forms is a business form; a request with a business form is not skipped,
\* whatever other forms accompany it and in whatever order they come.
C21_SkippedWithoutBusinessForm ==
    harvest.called =>
        (pc = "next" <=> ~ \E i \in DOMAIN harvest.kinds : harvest.kinds[i] = "business")

\* ------------------------------------------------------------------ C22
\* C22: for a request whose project the LIMS already holds, when the form has
\* as many samples as the project and none of them is left to post, main goes
\* on to the next request: nothing is created or deleted, no call of the
\* poster is made and the data of the request are left as they were.
C22_NothingToPost ==
    [][(/\ pc = "branch"
        /\ name # NoName
        /\ faults' = faults
        /\ Len(prj_data.samples) = Cardinality(SamplesOfProject(PrjLimsid(name)))
        /\ samples_differ(prj_data.samples, SamplesOfProject(PrjLimsid(name))).samples = <<>>)
       => (/\ pc' = "next"
           /\ UNCHANGED lims
           /\ lims_calls' = <<>>
           /\ prj_data' = prj_data)]_vars

\* main has left a request whose form repeats the samples of its project.
C22_Witness ==
    /\ pc = "next"
    /\ name # NoName
    /\ lims_calls = <<>>
    /\ prj_data.samples # <<>>
    /\ Len(prj_data.samples) = Cardinality(SamplesOfProject(PrjLimsid(name)))
    /\ samples_differ(prj_data.samples, SamplesOfProject(PrjLimsid(name))).samples = <<>>

\* ------------------------------------------------------------------ C23
\* C23: once post_project is over, routing was attempted if the post
\* succeeded with at least one created sample; routing is attempted for the
\* artifacts of the samples of that post and no others, and never after a
\* post that failed or created no sample.
C23_RoutingAttempted ==
    /\ (pc \in {"next", "aborted"} /\ sample_uris # <<>>) => Calls("route") # <<>>
    /\ \A i \in DOMAIN lims_calls :
          lims_calls[i].op = "route" =>
              /\ sample_uris # <<>>
              /\ ~HasExcept
              /\ Range(lims_calls[i].uris) = {ArtifactOf(u) : u \in Range(sample_uris)}
              /\ \A u \in Range(sample_uris) : \E smp \in samples : smp.uri = u

\* ------------------------------------------------------------------ C24
\* C24: the price is checked only after the successful post of a new project
\* that created samples: never for a project the LIMS already held and never
\* after a post that failed.
C24_PriceOnlyForNewProject ==
    /\ \A i \in DOMAIN lims_calls :
          lims_calls[i].op = "price" =>
              /\ new_proj
              /\ ~HasExcept
              /\ sample_uris # <<>>
              /\ \E j \in 1..(i - 1) :
                    /\ lims_calls[j].op = "create" /\ lims_calls[j].kind = "projects"
                    /\ lims_calls[j].ok
    /\ pc = "price" => (new_proj /\ sample_uris # <<>>)

\* The samples of a project the LIMS already held were posted and are about
\* to be routed, and the price was not checked.
C24_Witness ==
    /\ ~new_proj
    /\ name # NoName
    /\ sample_uris # <<>>
    /\ Calls("route") # <<>>
    /\ Calls("price") = <<>>

\* ------------------------------------------------------------------ C25
\* C25: a failure of the price check is not fatal: the samples just posted
\* are still routed and main goes on with the next request; no entity of the
\* LIMS changes.
C25_PriceFailureNotFatal ==
    (\E i \in DOMAIN lims_calls : lims_calls[i].op = "price" /\ ~lims_calls[i].ok) =>
        /\ pc # "aborted"
        /\ pc = "next" => Calls("route") # <<>>
        /\ \A u \in Range(sample_uris) : \E smp \in samples : smp.uri = u

\* ------------------------------------------------------------------ C26
\* C26: the names of the batch being unique, after create_samples every
\* sample of the form holds the identifier of the LIMS sample of its name and
\* the artifact of that sample, in whatever order the LIMS answered, and the
\* list returned holds one identifier for each sample posted.
C26_SamplesMatched ==
    sample_uris # <<>> =>
        /\ Len(sample_uris) = Len(prj_data.samples)
        /\ Cardinality(Range(sample_uris)) = Len(sample_uris)
        /\ \A i \in DOMAIN prj_data.samples :
              /\ prj_data.samples[i].uri \in Range(sample_uris)
              /\ prj_data.samples[i].art_uri = ArtifactOf(prj_data.samples[i].uri)
              /\ \E smp \in samples :
                    /\ smp.uri = prj_data.samples[i].uri
                    /\ smp.name = prj_data.samples[i].name
                    /\ smp.prj = prj_data.uri

\* Three samples were posted and the LIMS answered in another order than
\* that of the form.
C26_Witness ==
    /\ Len(sample_uris) = 3
    /\ Len(prj_data.samples) = 3
    /\ sample_uris[1] = prj_data.samples[3].uri
    /\ sample_uris[2] = prj_data.samples[1].uri

\* ------------------------------------------------------------------ C27
\* C27: if a sample of the batch declares an adapter, every created artifact
\* gets the label of the sample of the form in its container and well, in
\* whatever order the artifacts are read; if none does, no artifact is
\* labelled.
C27_AdaptersLabelled ==
    sample_uris # <<>> =>
        IF \E i \in DOMAIN prj_data.samples : prj_data.samples[i].adapter # NoAdapter
        THEN /\ Len(Calls("label")) = 1
             /\ \A smp \in samples :
                   smp.uri \in Range(sample_uris) =>
                       \E i \in DOMAIN prj_data.samples :
                           /\ prj_data.samples[i].con.uri = smp.con
                           /\ prj_data.samples[i].location = smp.location
                           /\ prj_data.samples[i].adapter = smp.label
        ELSE /\ Calls("label") = <<>>
             /\ \A smp \in samples : smp.label = NoAdapter

\* Three samples in one container were posted, two of them with an adapter,
\* and the LIMS answered in another order than that of the form.
C27_Witness ==
    /\ Len(sample_uris) = 3
    /\ sample_uris[1] = prj_data.samples[2].uri
    /\ \A i, j \in DOMAIN prj_data.samples :
          prj_data.samples[i].con.uri = prj_data.samples[j].con.uri
    /\ Cardinality({smp \in samples : smp.label # NoAdapter}) = 2

\* ------------------------------------------------------------------ C28
\* C28: create_containers makes one batch call, which creates exactly one
\* container for each (container name, container type) pair of the samples
\* of the form, and afterwards the samples of one container name hold one
\* container identifier.
C28_OneContainerPerPair ==
    (pc = "create_samples" /\ LastCall.op = "create" /\ LastCall.kind = "containers") =>
        LET pairs == {[name |-> prj_data.samples[i].con.name,
                       con_type |-> prj_data.samples[i].con.con_type] :
                         i \in DOMAIN prj_data.samples}
            made == {c \in containers : c.uri \in Range(LastCall.uris)}
        IN  /\ Len(SelectSeq(lims_calls, LAMBDA c : c.kind = "containers")) = 1
            /\ Len(LastCall.uris) = Cardinality(pairs)
            /\ Cardinality(made) = Cardinality(pairs)
            /\ {[name |-> c.name, con_type |-> c.con_type] : c \in made} = pairs
            /\ \A i, j \in DOMAIN prj_data.samples :
                  prj_data.samples[i].con.name = prj_data.samples[j].con.name =>
                      prj_data.samples[i].con.uri = prj_data.samples[j].con.uri
            /\ \A i \in DOMAIN prj_data.samples :
                  \E c \in made : /\ c.uri = prj_data.samples[i].con.uri
                                  /\ c.name = prj_data.samples[i].con.name

\* The three samples of the form are in two containers.
C28_Witness ==
    /\ pc = "create_samples"
    /\ LastCall.kind = "containers"
    /\ Len(prj_data.samples) = 3
    /\ Len(LastCall.uris) = 2
    /\ prj_data.samples[1].con.uri = prj_data.samples[3].con.uri
    /\ prj_data.samples[1].con.uri # prj_data.samples[2].con.uri

\* ------------------------------------------------------------------ C29
\* C29: a request whose project has a failure in the log less than one hour
\* (60 minutes) old when main starts is not processed in that run.
C29_FailureSuppressesRetry ==
    \A record \in audit :
        clock - record.date < 60 =>
            ~(pc \in {"harvest", "branch"} /\ prj_data.name = record.uri)

\* ------------------------------------------------------------------ C30
\* C30: when samples_differ resolves the samples of the project, the uri of
\* each of their containers is requested from the LIMS exactly once, however
\* many samples are in it, and no other container is requested.
C30_ContainerRequestedOnce ==
    recon.called =>
        LET con_uris == {smp.con : smp \in SamplesOfProject(prj_data.uri)}
        IN  /\ Range(recon.con_request) = con_uris
            /\ \A uri \in con_uris :
                  Cardinality({k \in DOMAIN recon.con_request :
                                  recon.con_request[k] = uri}) = 1

\* The project holds two samples in one container.
C30_Witness ==
    /\ recon.called
    /\ Cardinality(SamplesOfProject(prj_data.uri)) = 2
    /\ Len(recon.con_request) = 1

\* ------------------------------------------------------------------ C31
\* C31: a run never creates a sample that an earlier run of the same request
\* created and the LIMS still holds: no sample it creates has the name and
\* the location of a sample that was already in the project of the request.
C31_NeverCreatedAgain ==
    \A i \in DOMAIN lims_calls :
        (lims_calls[i].op = "create" /\ lims_calls[i].kind = "samples") =>
            \A new \in samples, old \in samples :
                (/\ new.uri \in Range(lims_calls[i].uris)
                 /\ old.uri \notin Range(lims_calls[i].uris)
                 /\ \E p \in projects : p.uri = old.prj /\ p.name = prj_data.name)
                    => ~(new.name = old.name /\ new.location = old.location)

\* ------------------------------------------------------------------ C32
\* C32: the rollback of a request passes to a delete call only what the
\* request created: a researcher that create_researcher looked up, because the
\* LIMS held one of that name, is never passed to a delete call.
C32_OnlyOwnDeleted ==
    \A i, j \in DOMAIN lims_calls :
        (lims_calls[i].op = "lookup" /\ lims_calls[j].op = "delete")
            => lims_calls[j].uris # lims_calls[i].uris

\* ------------------------------------------------------------------ C33
\* C33: when a creation step fails after the LIMS created its batch (the
\* containers cannot be read back, the sample uris cannot be mapped, the
\* artifacts cannot be labelled), the rollback deletes the batch: once
\* post_project has returned, nothing of the batch is left in the LIMS.
C33_LateFailureRolledBack ==
    (pc = "next" /\ HasExcept) =>
        \A i \in DOMAIN lims_calls :
            (lims_calls[i].op = "create" /\ ~lims_calls[i].ok /\ lims_calls[i].uris # <<>>)
                => \A uri \in Range(lims_calls[i].uris) : uri \notin LimsUris

\* ------------------------------------------------------------------ C34
\* C34: when main is done, without error, with a request whose project the
\* LIMS held, every sample of the form whose (name, location, container
\* name) was not in the project and whose container name is not that of a
\* container of the project is in the project, also when the form has as
\* many samples as the project had.
C34_NovelSamplesPosted ==
    (pc = "next" /\ name # NoName /\ ~HasExcept) =>
        LET incoming == IF recon.called THEN recon.incoming ELSE prj_data.samples
            held == {Sample(smp.name, smp.location, ConNameOf(smp.con)) :
                        smp \in SamplesOfProject(PrjLimsid(name))}
        IN  \A i \in DOMAIN incoming :
                Triple(incoming[i]) \in held
                \/ incoming[i].con.name \in {t.container : t \in held}

C36_OwnProjectOnly ==
    /\ recon.called => name = prj_data.name
    /\ \A i \in DOMAIN lims_calls :
          (lims_calls[i].op = "create" /\ lims_calls[i].kind = "samples") =>
              \A smp \in samples :
                  smp.uri \in Range(lims_calls[i].uris) =>
                      \E p \in projects : p.uri = smp.prj /\ p.name = prj_data.name

\* ------------------------------------------------------------------ C37
\* C37: no container that batch_post_containers posts has the name of a
\* container the LIMS holds when it is posted.
C37_PostedNamesUnique ==
    [][pc = "create_containers" =>
          \A new \in containers' \ containers :
              \A old \in containers : new.name # old.name]_vars

\* ------------------------------------------------------------------ C38
\* C38: when the extraction of a form of the request raises TypeError or
\* ValueError, harvest_form logs an error and main goes on with the next
\* request, posting nothing for this one.
C38_MalformedAborted ==
    (/\ harvest.called
     /\ \E i \in DOMAIN harvest.kinds : harvest.kinds[i] \in {"TypeError", "ValueError"})
        => /\ pc = "next"
           /\ \E r \in log : r.level = "error"

\* ------------------------------------------------------------------ C39
\* The process was interrupted in create_clarity_objs after its samples were
\* posted and recorded: the history has the samples returned and the except
\* clause entered.
Interrupted ==
    /\ HasExcept
    /\ \E i \in DOMAIN lims_calls :
          /\ lims_calls[i].op = "create" /\ lims_calls[i].kind = "samples"
          /\ lims_calls[i].ok

\* C39: after an interrupt the request in progress is brought to its end and
\* the run stops there: main does not go back to the head of its loop for
\* the requests that are still pending.
C39_StopsAfterInterrupt ==
    [][(pc = "next" /\ Interrupted /\ idx < Len(to_process)) => pc' # "loop"]_vars

\* ------------------------------------------------------------------ C40
\* C40: when the form has no sample to post, because it had none or because
\* samples_differ removed them all, post_project makes no create call for
\* containers or samples, create_clarity_objs returns the empty list, and
\* nothing is priced, labelled or routed; with new_proj true the researcher
\* and the project are created all the same and, when both calls returned,
\* they stay in the LIMS.
C40_NothingToPost ==
    (prj_data.req_id # NoName /\ prj_data.samples = <<>> /\ pc \notin {"harvest", "branch"}) =>
        /\ \A i \in DOMAIN lims_calls :
              /\ lims_calls[i].op = "create" =>
                    lims_calls[i].kind \in {"researchers", "projects"}
              /\ lims_calls[i].op \notin {"price", "route", "label"}
        /\ sample_uris = <<>>
        /\ (new_proj /\ pc = "next" /\ ~HasExcept) =>
              /\ \E i, j \in DOMAIN lims_calls :
                    /\ lims_calls[i].op = "create" /\ lims_calls[i].kind = "researchers"
                    /\ lims_calls[j].op = "create" /\ lims_calls[j].kind = "projects"
                    /\ lims_calls[i].ok /\ lims_calls[j].ok
              /\ Calls("delete") = <<>>
              /\ \E r \in researchers : r.uri = prj_data.res_uri /\ r.name = prj_data.res
              /\ \E p \in projects : /\ p.uri = prj_data.uri
                                     /\ p.name = prj_data.name
                                     /\ p.res = prj_data.res_uri

\* A new request without samples is done: its researcher and its project were
\* created, and nothing else was called.
C40_Witness ==
    /\ new_proj
    /\ pc = "next"
    /\ prj_data.samples = <<>>
    /\ Len(lims_calls) = 2
    /\ \E p \in projects : p.uri = prj_data.uri /\ p.name = prj_data.name

====
